---- MODULE Spec2Model ----
(***************************************************************************)
(* Branch reconstruction and lane layout of the repository visualizer:     *)
(* BranchVisualizer.assign_branch_colors, process_commit_data,             *)
(* prepare_visualization_data and create_plotly_figure                     *)
(* (src/utils/visualization.py), driven by main (src/app.py).              *)
(*                                                                         *)
(* Strings that the code inspects character by character (branch names,    *)
(* keywords) are sequences of one-character strings; shas and colours are  *)
(* opaque strings.  A Python dict is a sequence of [k, v] entries in       *)
(* insertion order.  A commit date is a natural number: strptime is an     *)
(* order-preserving injection of the timestamp string into datetime.       *)
(***************************************************************************)
EXTENDS Integers, Sequences, FiniteSets, TLC

VARIABLES
    commits_data,      \* input: sequence of [sha, parents, date]
    branch_data,       \* input: sequence of [name, commit]
    pc,                \* position of the running call
    branch_to_color,   \* assign_branch_colors: dict name -> colour
    used_colors,       \* assign_branch_colors: local counter
    ci,                \* assign_branch_colors: index of the branch being coloured
    calls,             \* completed calls of assign_branch_colors on the instance
    last_colors,       \* mapping returned by the previous call
    commit_to_branch,  \* process_commit_data: defaultdict(list) sha -> names
    commit_dates,      \* process_commit_data: dict sha -> date
    commit_parents,    \* process_commit_data: dict sha -> parents
    bi,                \* process_commit_data: index into branch_tips.items()
    current_commit,    \* process_commit_data: sha the walk stands on
    steps,             \* iterations of the while loop made by the current walk
    branch_lanes,      \* dict name -> lane
    branch_traces,     \* prepare_visualization_data: polylines
    dots_x, dots_y, dots_color, dots_text,   \* prepare_visualization_data: markers
    fig,               \* create_plotly_figure: the figure
    err                \* exception raised, or "none"

vars == <<commits_data, branch_data, pc, branch_to_color, used_colors, ci, calls,
          last_colors, commit_to_branch, commit_dates, commit_parents, bi,
          current_commit, steps, branch_lanes, branch_traces, dots_x, dots_y,
          dots_color, dots_text, fig, err>>

-----------------------------------------------------------------------------
(* Bounds of the explored inputs *)

MaxCommits == 2

MaxParents == 2

MaxDate == 1

MaxBranches == 2

MaxColorBranches == 11

MaxCalls == 2

MaxKeywordBranches == 2

\* cap on the iterations of one walk; above the longest cycle-free chain
MaxSteps == MaxCommits + 2

-----------------------------------------------------------------------------
(* Python built-ins *)

Range(s) == {s[i] : i \in 1..Len(s)}

\* d[k] = v on a dict
DictSet(d, k, v) ==
    IF \E i \in 1..Len(d) : d[i].k = k
    THEN [i \in 1..Len(d) |-> IF d[i].k = k THEN [k |-> k, v |-> v] ELSE d[i]]
    ELSE Append(d, [k |-> k, v |-> v])

\* k in d
DictHas(d, k) == \E i \in 1..Len(d) : d[i].k = k

\* d[k] for a key that is present
DictGet(d, k) == d[CHOOSE i \in 1..Len(d) : d[i].k = k].v

\* list(d.keys()), list(d.values())
DictKeys(d) == [i \in 1..Len(d) |-> d[i].k]

DictValues(d) == [i \in 1..Len(d) |-> d[i].v]

\* defaultdict(list).__getitem__: the value read, [] for a missing key
DefaultGet(d, k) == IF DictHas(d, k) THEN DictGet(d, k) ELSE <<>>

\* defaultdict(list).__getitem__: the dict afterwards (a missing key is inserted)
DefaultTouch(d, k) == IF DictHas(d, k) THEN d ELSE Append(d, [k |-> k, v |-> <<>>])

UpperChars == <<"A","B","C","D","E","F","G","H","I","J","K","L","M",
                "N","O","P","Q","R","S","T","U","V","W","X","Y","Z">>

LowerChars == <<"a","b","c","d","e","f","g","h","i","j","k","l","m",
                "n","o","p","q","r","s","t","u","v","w","x","y","z">>

\* the lower-case letter of each upper-case letter
LowerOf ==
    [c \in Range(UpperChars) |->
        LowerChars[CHOOSE j \in 1..Len(UpperChars) : UpperChars[j] = c]]

\* str.lower()
Lower(s) ==
    [i \in 1..Len(s) |-> IF s[i] \in DOMAIN LowerOf THEN LowerOf[s[i]] ELSE s[i]]

\* k in s, on strings
IsSubstring(k, s) ==
    \E i \in 0..(Len(s) - Len(k)) : SubSeq(s, i + 1, i + Len(k)) = k

-----------------------------------------------------------------------------
(* Constants of BranchVisualizer.__init__ *)

\* self.branch_colors, in the dict's insertion order
branch_colors ==
    << [k |-> <<"m","a","i","n">>,             v |-> "#2ECC71"],
       [k |-> <<"m","a","s","t","e","r">>,     v |-> "#2ECC71"],
       [k |-> <<"d","e","v","e","l","o","p">>, v |-> "#3498DB"],
       [k |-> <<"r","e","l","e","a","s","e">>, v |-> "#E74C3C"],
       [k |-> <<"f","e","a","t","u","r","e">>, v |-> "#9B59B6"],
       [k |-> <<"h","o","t","f","i","x">>,     v |-> "#E67E22"],
       [k |-> <<"b","u","g","f","i","x">>,     v |-> "#F1C40F"] >>

\* self.default_colors
default_colors ==
    << "#1ABC9C", "#16A085", "#27AE60", "#2980B9", "#8E44AD",
       "#2C3E50", "#F39C12", "#D35400", "#C0392B", "#BDC3C7" >>

\* the pseudo-branch of a commit that no walk reached, and its colour
Detached == <<"(","d","e","t","a","c","h","e","d",")">>

DetachedColor == "#95A5A6"

-----------------------------------------------------------------------------
(* Inputs *)

ShaPool == <<"a", "b", "c", "d", "e", "f">>

\* one sha more than a commit list can hold: some sha is always outside the list
Shas == {ShaPool[i] : i \in 1..(MaxCommits + 1)}

\* sequences without repetition over S, of length at most n
RECURSIVE DistinctSeqs(_, _)
DistinctSeqs(S, n) ==
    IF n = 0 THEN {<<>>}
    ELSE LET shorter == DistinctSeqs(S, n - 1)
         IN  shorter \cup
             UNION { {Append(q, x) : x \in S \ Range(q)} :
                     q \in {r \in shorter : Len(r) = n - 1} }

ParentLists == DistinctSeqs(Shas, MaxParents)

\* commit lists [{sha, date, parents}], the shas unique (the i-th commit has the
\* i-th sha of the pool); a parent may be any sha, also the commit's own
CommitLists ==
    UNION {
        {[i \in 1..n |-> [sha |-> ShaPool[i], parents |-> f[i].parents, date |-> f[i].date]] :
            f \in [1..n -> [parents : ParentLists, date : 0..MaxDate]]}
        : n \in 0..MaxCommits }

n_main == <<"m","a","i","n">>

n_feature_x == <<"f","e","a","t","u","r","e","/","x">>

n_dev == <<"d","e","v">>

BranchNamePool == {n_main, n_feature_x, n_dev}

\* branch lists [{name, commit}], the names unique, the tip any sha
BranchLists ==
    UNION {
        {[i \in 1..Len(names) |-> [name |-> names[i], commit |-> tips[i]]] :
            tips \in [1..Len(names) -> Shas]}
        : names \in DistinctSeqs(BranchNamePool, MaxBranches) }

\* names for the colour assignment: some carry keywords, in either case and
\* more than one at a time
KeywordNamePool ==
    { <<"M","A","S","T","E","R">>,
      <<"F","e","a","t","u","r","e","/","x">>,
      <<"f","e","a","t","u","r","e","/","m","a","i","n">>,
      <<"h","o","t","f","i","x","-","r","e","l","e","a","s","e">>,
      <<"b","u","g","f","i","x","/","D","e","v","e","l","o","p">> }

\* the i-th of the names that carry no keyword
PlainName(i) == <<"x", LowerChars[i]>>

\* colour-assignment inputs: j plain names, some keyword names, k - j plain names
ColorBranchLists ==
    UNION {
        { [i \in 1..(k + Len(kw)) |->
              [name   |-> IF i <= j THEN PlainName(i)
                          ELSE IF i <= j + Len(kw) THEN kw[i - j]
                          ELSE PlainName(i - Len(kw)),
               commit |-> "a"]] :
            kw \in DistinctSeqs(KeywordNamePool, MaxKeywordBranches), j \in 0..k }
        : k \in 0..MaxColorBranches }

NoFigure == [built |-> FALSE, n_traces |-> 0, ticktext |-> <<>>, tickvals |-> <<>>]

Init ==
    /\ commits_data \in CommitLists
    /\ branch_data \in BranchLists
    /\ pc = "idle"
    /\ branch_to_color = <<>>
    /\ used_colors = 0
    /\ ci = 0
    /\ calls = 0
    /\ last_colors = <<>>
    /\ commit_to_branch = <<>>
    /\ commit_dates = <<>>
    /\ commit_parents = <<>>
    /\ bi = 0
    /\ current_commit = ""
    /\ steps = 0
    /\ branch_lanes = <<>>
    /\ branch_traces = <<>>
    /\ dots_x = <<>>
    /\ dots_y = <<>>
    /\ dots_color = <<>>
    /\ dots_text = <<>>
    /\ fig = NoFigure
    /\ err = "none"

InitColors ==
    /\ commits_data = <<>>
    /\ branch_data \in ColorBranchLists
    /\ pc = "call_assign"
    /\ branch_to_color = <<>>
    /\ used_colors = 0
    /\ ci = 0
    /\ calls = 0
    /\ last_colors = <<>>
    /\ commit_to_branch = <<>>
    /\ commit_dates = <<>>
    /\ commit_parents = <<>>
    /\ bi = 0
    /\ current_commit = ""
    /\ steps = 0
    /\ branch_lanes = <<>>
    /\ branch_traces = <<>>
    /\ dots_x = <<>>
    /\ dots_y = <<>>
    /\ dots_color = <<>>
    /\ dots_text = <<>>
    /\ fig = NoFigure
    /\ err = "none"

-----------------------------------------------------------------------------
(* main: the Branch View tab *)

\* app.py: the figure is built only when both lists are non-empty
Main ==
    /\ pc = "idle"
    /\ pc' = IF commits_data # <<>> /\ branch_data # <<>> THEN "call_assign" ELSE "warning"
    /\ UNCHANGED <<commits_data, branch_data, branch_to_color, used_colors, ci, calls,
                   last_colors, commit_to_branch, commit_dates, commit_parents, bi,
                   current_commit, steps, branch_lanes, branch_traces, dots_x, dots_y,
                   dots_color, dots_text, fig, err>>

\* create_branch_visualization(commits_data, branch_data) called by another
\* caller than main: it runs on whatever lists it is given
create_branch_visualization ==
    /\ pc = "idle"
    /\ pc' = "call_assign"
    /\ UNCHANGED <<commits_data, branch_data, branch_to_color, used_colors, ci, calls,
                   last_colors, commit_to_branch, commit_dates, commit_parents, bi,
                   current_commit, steps, branch_lanes, branch_traces, dots_x, dots_y,
                   dots_color, dots_text, fig, err>>

-----------------------------------------------------------------------------
(* BranchVisualizer.assign_branch_colors *)

\* the inner for loop: the colour of the first keyword, in the order of
\* branch_colors, that the lowercased name contains; "" when the loop ends
\* with color_assigned = False
RECURSIVE KeywordColorFrom(_, _)
KeywordColorFrom(branch_name, t) ==
    IF t > Len(branch_colors) THEN ""
    ELSE IF IsSubstring(branch_colors[t].k, Lower(branch_name)) THEN branch_colors[t].v
    ELSE KeywordColorFrom(branch_name, t + 1)

\* a scan that lets the last matching keyword of the table win
RECURSIVE KeywordColorDownFrom(_, _)
KeywordColorDownFrom(branch_name, t) ==
    IF t = 0 THEN ""
    ELSE IF IsSubstring(branch_colors[t].k, Lower(branch_name)) THEN branch_colors[t].v
    ELSE KeywordColorDownFrom(branch_name, t - 1)

KeywordColorLastMatch(branch_name) == KeywordColorDownFrom(branch_name, Len(branch_colors))

KeywordColor(branch_name) == KeywordColorFrom(branch_name, 1)

\* a counter kept on the instance from one call to the next
KeptUsedColors(previous) == previous

\* used_colors = 0 at the start of a call
FirstUsedColors(previous) == 0

\* the colour of a branch that matched no keyword
DefaultColor(used) == default_colors[(used % Len(default_colors)) + 1]

\* the counter after a branch, matched or not
NextUsedColors(used, matched) == IF matched THEN used ELSE used + 1

AssignBegin ==
    /\ pc = "call_assign"
    /\ branch_to_color' = <<>>
    /\ used_colors' = FirstUsedColors(used_colors)
    /\ ci' = 1
    /\ pc' = "assign"
    /\ UNCHANGED <<commits_data, branch_data, calls, last_colors, commit_to_branch,
                   commit_dates, commit_parents, bi, current_commit, steps,
                   branch_lanes, branch_traces, dots_x, dots_y, dots_color,
                   dots_text, fig, err>>

\* one iteration of "for branch in branch_data"
AssignStep ==
    /\ pc = "assign"
    /\ ci <= Len(branch_data)
    /\ LET branch_name == branch_data[ci].name
           color == KeywordColor(branch_name)
           color_assigned == color # ""
       IN  /\ branch_to_color' =
                 DictSet(branch_to_color, branch_name,
                         IF color_assigned THEN color ELSE DefaultColor(used_colors))
           /\ used_colors' = NextUsedColors(used_colors, color_assigned)
    /\ ci' = ci + 1
    /\ UNCHANGED <<commits_data, branch_data, pc, calls, last_colors, commit_to_branch,
                   commit_dates, commit_parents, bi, current_commit, steps,
                   branch_lanes, branch_traces, dots_x, dots_y, dots_color,
                   dots_text, fig, err>>

\* return branch_to_color
AssignReturn ==
    /\ pc = "assign"
    /\ ci > Len(branch_data)
    /\ calls' = calls + 1
    /\ pc' = "assigned"
    /\ UNCHANGED <<commits_data, branch_data, branch_to_color, used_colors, ci,
                   last_colors, commit_to_branch, commit_dates, commit_parents, bi,
                   current_commit, steps, branch_lanes, branch_traces, dots_x, dots_y,
                   dots_color, dots_text, fig, err>>

\* a further call of assign_branch_colors on the same instance and list
AssignAgain ==
    /\ pc = "assigned"
    /\ calls < MaxCalls
    /\ last_colors' = branch_to_color
    /\ pc' = "call_assign"
    /\ UNCHANGED <<commits_data, branch_data, branch_to_color, used_colors, ci, calls,
                   commit_to_branch, commit_dates, commit_parents, bi,
                   current_commit, steps, branch_lanes, branch_traces, dots_x, dots_y,
                   dots_color, dots_text, fig, err>>

-----------------------------------------------------------------------------
(* BranchVisualizer.process_commit_data *)

\* {branch['name']: branch['commit'] for branch in branch_data}
RECURSIVE BranchTipsUpTo(_)
BranchTipsUpTo(n) ==
    IF n = 0 THEN <<>>
    ELSE DictSet(BranchTipsUpTo(n - 1), branch_data[n].name, branch_data[n].commit)

branch_tips == BranchTipsUpTo(Len(branch_data))

\* {commit['sha']: commit['parents'] for commit in commits_data}
RECURSIVE CommitParentsUpTo(_)
CommitParentsUpTo(n) ==
    IF n = 0 THEN <<>>
    ELSE DictSet(CommitParentsUpTo(n - 1), commits_data[n].sha, commits_data[n].parents)

\* {commit['sha']: strptime(commit['date']) for commit in commits_data}
RECURSIVE CommitDatesUpTo(_)
CommitDatesUpTo(n) ==
    IF n = 0 THEN <<>>
    ELSE DictSet(CommitDatesUpTo(n - 1), commits_data[n].sha, commits_data[n].date)

\* a walk that follows the last parent instead of the first
NextCommitLastParent(current, parents) == parents[Len(parents)]

\* a walk that never leaves the commit it stands on
NextCommitStays(current, parents) == current

\* current_commit = commit_parents[current_commit][0]
NextCommit(current, parents) == parents[1]

\* the while condition
WalkContinues(sha, parents_of) == DictHas(parents_of, sha)

\* an append made before the while condition is looked at
AppendBranchUnchecked(membership, sha, branch_name, in_list) ==
    DictSet(membership, sha, Append(DefaultGet(membership, sha), branch_name))

\* commit_to_branch[current_commit].append(branch_name), inside the loop:
\* in_list is the while condition
AppendBranch(membership, sha, branch_name, in_list) ==
    IF in_list
    THEN DictSet(membership, sha, Append(DefaultGet(membership, sha), branch_name))
    ELSE membership

\* the mappings are built and the for loop over branch_tips.items() is entered
ProcessBegin ==
    /\ pc = "assigned"
    /\ commit_to_branch' = <<>>
    /\ commit_parents' = CommitParentsUpTo(Len(commits_data))
    /\ commit_dates' = CommitDatesUpTo(Len(commits_data))
    /\ steps' = 0
    /\ IF branch_tips = <<>>
       THEN /\ pc' = "processed"
            /\ UNCHANGED <<bi, current_commit>>
       ELSE /\ pc' = "walk"
            /\ bi' = 1
            /\ current_commit' = branch_tips[1].v
    /\ UNCHANGED <<commits_data, branch_data, branch_to_color, used_colors, ci, calls,
                   last_colors, branch_lanes, branch_traces, dots_x, dots_y,
                   dots_color, dots_text, fig, err>>

\* one evaluation of the while condition and, when it holds, one iteration of
\* the loop body; when the walk ends the for loop moves to the next branch, or
\* the function returns
WalkStep ==
    /\ pc = "walk"
    /\ steps < MaxSteps
    /\ LET branch_name == branch_tips[bi].k
           in_list == WalkContinues(current_commit, commit_parents)
           parents == DictGet(commit_parents, current_commit)
           walk_ends == ~in_list \/ parents = <<>>
       IN  /\ commit_to_branch' =
                 AppendBranch(commit_to_branch, current_commit, branch_name, in_list)
           /\ IF ~walk_ends
              THEN /\ current_commit' = NextCommit(current_commit, parents)
                   /\ steps' = steps + 1
                   /\ UNCHANGED <<pc, bi>>
              ELSE IF bi < Len(branch_tips)
              THEN /\ bi' = bi + 1
                   /\ current_commit' = branch_tips[bi + 1].v
                   /\ steps' = 0
                   /\ UNCHANGED pc
              ELSE /\ pc' = "processed"
                   /\ UNCHANGED <<bi, current_commit, steps>>
    /\ UNCHANGED <<commits_data, branch_data, branch_to_color, used_colors, ci, calls,
                   last_colors, commit_dates, commit_parents, branch_lanes,
                   branch_traces, dots_x, dots_y, dots_color, dots_text, fig, err>>

-----------------------------------------------------------------------------
(* Lane allocation *)

\* lanes 0, 1, 2, ... in the order the distinct branch names are first met
RECURSIVE AllocateLanesUpTo(_)
AllocateLanesUpTo(n) ==
    IF n = 0 THEN <<>>
    ELSE LET lanes == AllocateLanesUpTo(n - 1)
             name  == branch_data[n].name
         IN  IF DictHas(lanes, name) THEN lanes ELSE DictSet(lanes, name, Len(lanes))

AllocateLanes ==
    /\ pc = "processed"
    /\ branch_lanes' = AllocateLanesUpTo(Len(branch_data))
    /\ pc' = "lanes"
    /\ UNCHANGED <<commits_data, branch_data, branch_to_color, used_colors, ci, calls,
                   last_colors, commit_to_branch, commit_dates, commit_parents, bi,
                   current_commit, steps, branch_traces, dots_x, dots_y, dots_color,
                   dots_text, fig, err>>

-----------------------------------------------------------------------------
(* BranchVisualizer.prepare_visualization_data *)

\* the place of a (sha, date) pair in a list sorted by date: after every pair
\* whose date is not later (sorted() is stable)
RECURSIVE SortedInsert(_, _)
SortedInsert(sorted, pair) ==
    IF sorted = <<>> THEN <<pair>>
    ELSE IF sorted[Len(sorted)].date <= pair.date THEN Append(sorted, pair)
    ELSE Append(SortedInsert(SubSeq(sorted, 1, Len(sorted) - 1), pair), sorted[Len(sorted)])

\* member commits left in the order the walks met them
Unsorted(pairs) == pairs

\* sorted(pairs, key=lambda x: x[1])
RECURSIVE SortedByDate(_)
SortedByDate(pairs) ==
    IF pairs = <<>> THEN <<>>
    ELSE SortedInsert(SortedByDate(SubSeq(pairs, 1, Len(pairs) - 1)), pairs[Len(pairs)])

\* [(sha, commit_dates[sha]) for sha, branches in commit_to_branch.items()
\*  if branch_name in branches], over the first n items
RECURSIVE MemberPairsUpTo(_, _, _, _)
MemberPairsUpTo(membership, dates, branch_name, n) ==
    IF n = 0 THEN <<>>
    ELSE LET rest == MemberPairsUpTo(membership, dates, branch_name, n - 1)
         IN  IF branch_name \in Range(membership[n].v)
             THEN Append(rest, [sha |-> membership[n].k, date |-> DictGet(dates, membership[n].k)])
             ELSE rest

BranchCommits(membership, dates, branch_name) ==
    SortedByDate(MemberPairsUpTo(membership, dates, branch_name, Len(membership)))

\* the go.Scatter line of one branch
BranchTrace(membership, dates, colors, branch_name, lane) ==
    LET branch_commits == BranchCommits(membership, dates, branch_name)
    IN  [name  |-> branch_name,
         x     |-> [i \in 1..Len(branch_commits) |-> branch_commits[i].date],
         y     |-> [i \in 1..Len(branch_commits) |-> lane],
         color |-> DictGet(colors, branch_name)]

\* the first loop, over the first n items of branch_lanes
RECURSIVE BranchTracesUpTo(_, _, _, _, _)
BranchTracesUpTo(membership, dates, colors, lanes, n) ==
    IF n = 0 THEN <<>>
    ELSE LET rest == BranchTracesUpTo(membership, dates, colors, lanes, n - 1)
         IN  IF BranchCommits(membership, dates, lanes[n].k) # <<>>
             THEN Append(rest, BranchTrace(membership, dates, colors, lanes[n].k, lanes[n].v))
             ELSE rest

\* a commit that no walk reached gets no dot
DotBranchesOfMembersOnly(membership, sha) == DefaultGet(membership, sha)

\* the branches a commit's dots are drawn for
DotBranches(membership, sha) ==
    IF DefaultGet(membership, sha) = <<>> THEN <<Detached>> ELSE DefaultGet(membership, sha)

\* the dots of a commit tinted with the last branch of its list
DotColorOfLastBranch(membership, colors, sha) ==
    IF DefaultGet(membership, sha) = <<>> THEN DetachedColor
    ELSE DictGet(colors, DefaultGet(membership, sha)[Len(DefaultGet(membership, sha))])

\* the colour of all dots of a commit
DotColor(membership, colors, sha) ==
    IF DefaultGet(membership, sha) = <<>> THEN DetachedColor
    ELSE DictGet(colors, DefaultGet(membership, sha)[1])

\* branch_lanes.get(branch, len(branch_lanes))
DotLane(lanes, branch) ==
    IF DictHas(lanes, branch) THEN DictGet(lanes, branch) ELSE Len(lanes)

\* the dots of one commit; the hover text keeps the sha and the branch list
\* (a sha of the model is shorter than the seven characters the text shows)
CommitDots(membership, dates, colors, lanes, commit) ==
    LET branches == DotBranches(membership, commit.sha)
    IN  [i \in 1..Len(branches) |->
            [x     |-> DictGet(dates, commit.sha),
             y     |-> DotLane(lanes, branches[i]),
             color |-> DotColor(membership, colors, commit.sha),
             text  |-> [sha |-> commit.sha, branches |-> branches]]]

\* the second loop, over the first n commits
RECURSIVE DotsUpTo(_, _, _, _, _)
DotsUpTo(membership, dates, colors, lanes, n) ==
    IF n = 0 THEN <<>>
    ELSE DotsUpTo(membership, dates, colors, lanes, n - 1)
         \o CommitDots(membership, dates, colors, lanes, commits_data[n])

\* commit_to_branch after the second loop read it for the first n commits
RECURSIVE TouchedUpTo(_, _)
TouchedUpTo(membership, n) ==
    IF n = 0 THEN membership
    ELSE DefaultTouch(TouchedUpTo(membership, n - 1), commits_data[n].sha)

\* a dict lookup of the function that raises KeyError
PrepareRaises ==
    \/ \E i \in 1..Len(branch_lanes) : ~DictHas(branch_to_color, branch_lanes[i].k)
    \/ \E i \in 1..Len(commit_to_branch) :
          /\ commit_to_branch[i].v # <<>>
          /\ ~DictHas(commit_dates, commit_to_branch[i].k)
    \/ \E i \in 1..Len(commits_data) :
          \/ ~DictHas(commit_dates, commits_data[i].sha)
          \/ /\ DefaultGet(commit_to_branch, commits_data[i].sha) # <<>>
             /\ ~DictHas(branch_to_color, DefaultGet(commit_to_branch, commits_data[i].sha)[1])

prepare_visualization_data ==
    /\ pc = "lanes"
    /\ IF PrepareRaises
       THEN /\ err' = "KeyError"
            /\ pc' = "raised"
            /\ UNCHANGED <<branch_traces, dots_x, dots_y, dots_color, dots_text,
                           commit_to_branch>>
       ELSE LET dots == DotsUpTo(commit_to_branch, commit_dates, branch_to_color,
                                 branch_lanes, Len(commits_data))
            IN  /\ branch_traces' = BranchTracesUpTo(commit_to_branch, commit_dates,
                                       branch_to_color, branch_lanes, Len(branch_lanes))
                /\ dots_x' = [i \in 1..Len(dots) |-> dots[i].x]
                /\ dots_y' = [i \in 1..Len(dots) |-> dots[i].y]
                /\ dots_color' = [i \in 1..Len(dots) |-> dots[i].color]
                /\ dots_text' = [i \in 1..Len(dots) |-> dots[i].text]
                /\ commit_to_branch' = TouchedUpTo(commit_to_branch, Len(commits_data))
                /\ pc' = "prepared"
                /\ UNCHANGED err
    /\ UNCHANGED <<commits_data, branch_data, branch_to_color, used_colors, ci, calls,
                   last_colors, commit_dates, commit_parents, bi, current_commit,
                   steps, branch_lanes, fig>>

-----------------------------------------------------------------------------
(* BranchVisualizer.create_plotly_figure *)

\* the lane mapping the figure labels its y axis with
FigureLanes == branch_lanes

create_plotly_figure ==
    /\ pc = "prepared"
    /\ fig' = [built    |-> TRUE,
               n_traces |-> Len(branch_traces) + 1,
               ticktext |-> DictKeys(FigureLanes),
               tickvals |-> DictValues(FigureLanes)]
    /\ pc' = "done"
    /\ UNCHANGED <<commits_data, branch_data, branch_to_color, used_colors, ci, calls,
                   last_colors, commit_to_branch, commit_dates, commit_parents, bi,
                   current_commit, steps, branch_lanes, branch_traces, dots_x, dots_y,
                   dots_color, dots_text, err>>

-----------------------------------------------------------------------------
(* Specifications *)

Next ==
    \/ Main
    \/ create_branch_visualization
    \/ AssignBegin
    \/ AssignStep
    \/ AssignReturn
    \/ ProcessBegin
    \/ WalkStep
    \/ AllocateLanes
    \/ prepare_visualization_data
    \/ create_plotly_figure

Spec == Init /\ [][Next]_vars

\* the inputs of the termination check: the walks never read a date
InitLive ==
    /\ Init
    /\ \A i \in 1..Len(commits_data) : commits_data[i].date = 0

\* the interpreter runs a call to its end: a step that can be taken is taken
LiveSpec == InitLive /\ [][Next]_vars /\ WF_vars(Next)

\* assign_branch_colors called MaxCalls times on one instance
NextColors ==
    \/ AssignBegin
    \/ AssignStep
    \/ AssignReturn
    \/ AssignAgain

SpecColors == InitColors /\ [][NextColors]_vars

-----------------------------------------------------------------------------
(* The commit graph of the input, read off commits_data *)

CommitShas == {commits_data[i].sha : i \in 1..Len(commits_data)}

ParentsOf(sha) == commits_data[CHOOSE i \in 1..Len(commits_data) : commits_data[i].sha = sha].parents

\* the commits of the list reached from sha by one to n parent edges
RECURSIVE ReachIn(_, _)
ReachIn(sha, n) ==
    IF n = 0 THEN {}
    ELSE LET r == ReachIn(sha, n - 1)
         IN  r \cup {y \in CommitShas : y \in Range(ParentsOf(sha))}
               \cup {y \in CommitShas : \E z \in r : y \in Range(ParentsOf(z))}

NoParentCycle == \A x \in CommitShas : x \notin ReachIn(x, Len(commits_data))

\* the first-parent chains that start at tip and stay inside the commit list
ChainPaths(tip) ==
    {p \in DistinctSeqs(CommitShas, Len(commits_data)) :
        /\ p # <<>>
        /\ p[1] = tip
        /\ \A i \in 1..(Len(p) - 1) :
              /\ ParentsOf(p[i]) # <<>>
              /\ ParentsOf(p[i])[1] = p[i + 1]}

OnFirstParentChain(tip, sha) == \E p \in ChainPaths(tip) : p[Len(p)] = sha

Members(sha) == Range(DefaultGet(commit_to_branch, sha))

Resolved == pc \in {"processed", "lanes", "prepared", "done"}

-----------------------------------------------------------------------------
(* Claims about process_commit_data *)

\* C1: on a commit list with unique shas and no parent cycle, branch b is in
\* membership[s] exactly when s lies on the first-parent chain from b's tip,
\* every sha of the chain down to s being in the commit list; nothing is raised
C1_MembershipIsFirstParentChain ==
    (Resolved /\ NoParentCycle) =>
        /\ err = "none"
        /\ \A i \in 1..Len(branch_data) : \A s \in Shas :
              (branch_data[i].name \in Members(s))
                  <=> OnFirstParentChain(branch_data[i].commit, s)

\* a branch walked over a merge commit whose second parent is in the commit
\* list and was not attributed to it, and a branch whose tip is outside the list
C1_Witness ==
    /\ pc = "processed"
    /\ NoParentCycle
    /\ \E i \in 1..Len(branch_data) : branch_data[i].commit \notin CommitShas
    /\ \E i \in 1..Len(branch_data) : \E s \in CommitShas :
          /\ branch_data[i].name \in Members(s)
          /\ Len(ParentsOf(s)) = 2
          /\ ParentsOf(s)[2] \in CommitShas
          /\ branch_data[i].name \notin Members(ParentsOf(s)[2])

\* C2: with no cycle in the parent relation every run of process_commit_data
\* ends (main leaves without calling it when a list is empty)
C2_Terminates == NoParentCycle => <>(pc = "processed" \/ pc = "warning")

\* the function returned after a walk of more than one commit and a walk that
\* stopped at a sha outside the commit list
C2_Witness ==
    /\ pc = "processed"
    /\ NoParentCycle
    /\ \E i \in 1..Len(branch_data) : \E s \in CommitShas :
          /\ s # branch_data[i].commit
          /\ branch_data[i].name \in Members(s)
    /\ \E i \in 1..Len(branch_data) : \E s \in CommitShas :
          /\ branch_data[i].name \in Members(s)
          /\ ParentsOf(s) # <<>>
          /\ ParentsOf(s)[1] \notin CommitShas

\* C3: every key of the membership map is a key of the date index, and every
\* key of the membership map, the date index and the parent map is the sha of
\* a commit of the input list
C3_KeysAreInputShas ==
    /\ \A k \in Range(DictKeys(commit_to_branch)) : DictHas(commit_dates, k)
    /\ Range(DictKeys(commit_to_branch)) \subseteq CommitShas
    /\ Range(DictKeys(commit_dates)) \subseteq CommitShas
    /\ Range(DictKeys(commit_parents)) \subseteq CommitShas

\* the function returned a non-empty membership map although a branch tip and
\* a first parent that a walk met are outside the commit list
C3_Witness ==
    /\ pc = "processed"
    /\ commit_to_branch # <<>>
    /\ \E i \in 1..Len(branch_data) : branch_data[i].commit \notin CommitShas
    /\ \E s \in CommitShas :
          /\ Members(s) # {}
          /\ ParentsOf(s) # <<>>
          /\ ParentsOf(s)[1] \notin CommitShas

\* C10: a walk stops when a sha repeats, so no branch name is appended twice to
\* the membership list of a sha, also when the first-parent chain has a cycle
C10_NoBranchAppendedTwice ==
    \A e \in Range(commit_to_branch) :
        \A i, j \in 1..Len(e.v) : i # j => e.v[i] # e.v[j]

-----------------------------------------------------------------------------
(* Claims about assign_branch_colors *)

\* the t-th keyword of the table is a substring of the lowercased name
Contains(name, t) == IsSubstring(branch_colors[t].k, Lower(name))

Unmatched(name) == \A t \in 1..Len(branch_colors) : ~Contains(name, t)

ColorOf(name) == DictGet(branch_to_color, name)

\* C4 as stated: a branch whose name contains a keyword gets that keyword's
\* colour, whatever else the name contains, another keyword included
C4_AnyContainedKeywordColor ==
    pc = "assigned" =>
        \A i \in 1..Len(branch_data) : \A t \in 1..Len(branch_colors) :
            Contains(branch_data[i].name, t)
                => ColorOf(branch_data[i].name) = branch_colors[t].v

\* C4 amended: a branch whose name contains a keyword gets the colour of the
\* first keyword, in the table's order, that its lowercased name contains
C4_FirstContainedKeywordColor ==
    pc = "assigned" =>
        \A i \in 1..Len(branch_data) : \A t \in 1..Len(branch_colors) :
            (/\ Contains(branch_data[i].name, t)
             /\ \A u \in 1..(t - 1) : ~Contains(branch_data[i].name, u))
                => ColorOf(branch_data[i].name) = branch_colors[t].v

\* a list coloured with a name that holds two keywords of different colours and
\* a name that holds a keyword in upper case
C4_Witness ==
    /\ pc = "assigned"
    /\ \E i \in 1..Len(branch_data) : \E t, u \in 1..Len(branch_colors) :
          /\ Contains(branch_data[i].name, t)
          /\ Contains(branch_data[i].name, u)
          /\ branch_colors[t].v # branch_colors[u].v
    /\ \E i \in 1..Len(branch_data) : \E t \in 1..Len(branch_colors) :
          /\ Contains(branch_data[i].name, t)
          /\ ~IsSubstring(branch_colors[t].k, branch_data[i].name)

\* the number of branches before position i that match no keyword
UnmatchedBefore(i) == Cardinality({q \in 1..(i - 1) : Unmatched(branch_data[q].name)})

\* C5: the i-th branch that matches no keyword gets default_colors[i mod 10],
\* matched branches do not advance the counter, a second call on the same
\* instance and list returns the same mapping, and every branch name of the
\* input has exactly one colour
C5_DefaultPaletteRotation ==
    pc = "assigned" =>
        /\ \A i \in 1..Len(branch_data) :
              Unmatched(branch_data[i].name) =>
                  ColorOf(branch_data[i].name)
                      = default_colors[(UnmatchedBefore(i) % 10) + 1]
        /\ calls >= 2 => branch_to_color = last_colors
        /\ Len(branch_to_color) = Len(branch_data)
        /\ \A i \in 1..Len(branch_data) : branch_to_color[i].k = branch_data[i].name

\* the second call returned for a list of more unmatched branches than the
\* palette has colours, with a matched branch among them
C5_Witness ==
    /\ pc = "assigned"
    /\ calls = 2
    /\ UnmatchedBefore(Len(branch_data) + 1) > Len(default_colors)
    /\ \E i \in 1..Len(branch_data) :
          /\ ~Unmatched(branch_data[i].name)
          /\ UnmatchedBefore(i) > 0
          /\ UnmatchedBefore(i) < UnmatchedBefore(Len(branch_data) + 1)

-----------------------------------------------------------------------------
(* Claims about prepare_visualization_data and create_plotly_figure *)

Laid == pc \in {"prepared", "done"}

Lane(name) == DictGet(branch_lanes, name)

\* the positions of the dots whose hover text names sha, in the order emitted
RECURSIVE DotIndexesUpTo(_, _)
DotIndexesUpTo(sha, n) ==
    IF n = 0 THEN <<>>
    ELSE IF dots_text[n].sha = sha THEN Append(DotIndexesUpTo(sha, n - 1), n)
    ELSE DotIndexesUpTo(sha, n - 1)

DotIndexes(sha) == DotIndexesUpTo(sha, Len(dots_text))

DetachedDots == {i \in 1..Len(dots_text) : dots_text[i].branches = <<Detached>>}

\* C6 as stated: with an empty commit list or an empty branch list the core
\* returns no polyline and no marker, and raises nothing
C6_EmptyInputEmptyLayout ==
    (pc \in {"prepared", "done", "raised"} /\ (commits_data = <<>> \/ branch_data = <<>>)) =>
        /\ err = "none"
        /\ branch_traces = <<>>
        /\ dots_x = <<>>

\* C6 amended: with an empty commit list the core returns no polyline and no
\* marker; with an empty branch list it returns no polyline and one grey
\* "(detached)" marker per commit, on lane 0; it raises nothing in either case
C6_EmptyInputLayout ==
    /\ (pc \in {"prepared", "done", "raised"} /\ commits_data = <<>>) =>
          /\ err = "none"
          /\ branch_traces = <<>>
          /\ dots_x = <<>>
    /\ (pc \in {"prepared", "done", "raised"} /\ branch_data = <<>>) =>
          /\ err = "none"
          /\ branch_traces = <<>>
          /\ Len(dots_x) = Len(commits_data)
          /\ \A i \in 1..Len(dots_x) :
                /\ dots_text[i] = [sha |-> commits_data[i].sha, branches |-> <<Detached>>]
                /\ dots_x[i] = commits_data[i].date
                /\ dots_y[i] = 0
                /\ dots_color[i] = "#95A5A6"

\* the core laid out two commits for an empty branch list
C6_Witness ==
    /\ pc = "prepared"
    /\ branch_data = <<>>
    /\ Len(commits_data) = 2
    /\ Len(dots_x) = 2

\* C7: a commit gets one marker per branch of its membership list, at the
\* commit's date on that branch's lane, all in the colour of the first branch
\* of the list; a commit with an empty list gets one "(detached)" marker in
\* #95A5A6; main and feature/x with the same tip b give two markers for b, on
\* two lanes, both in main's colour
C7_MarkersPerMembership ==
    Laid =>
        /\ \A i \in 1..Len(dots_text) : dots_text[i].sha \in CommitShas
        /\ Len(dots_x) = Len(dots_text)
        /\ Len(dots_y) = Len(dots_text)
        /\ Len(dots_color) = Len(dots_text)
        /\ \A n \in 1..Len(commits_data) :
              LET sha == commits_data[n].sha
                  m   == DefaultGet(commit_to_branch, sha)
                  ix  == DotIndexes(sha)
              IN  IF m = <<>>
                  THEN /\ Len(ix) = 1
                       /\ dots_text[ix[1]].branches = <<Detached>>
                       /\ dots_x[ix[1]] = commits_data[n].date
                       /\ dots_color[ix[1]] = "#95A5A6"
                  ELSE /\ Len(ix) = Len(m)
                       /\ \A j \in 1..Len(m) :
                             /\ dots_x[ix[j]] = commits_data[n].date
                             /\ dots_y[ix[j]] = Lane(m[j])
                             /\ dots_color[ix[j]] = ColorOf(m[1])
        /\ (/\ branch_data = << [name |-> n_main, commit |-> "b"],
                                [name |-> n_feature_x, commit |-> "b"] >>
            /\ "b" \in CommitShas) =>
              /\ DefaultGet(commit_to_branch, "b") = <<n_main, n_feature_x>>
              /\ Len(DotIndexes("b")) = 2
              /\ dots_y[DotIndexes("b")[1]] # dots_y[DotIndexes("b")[2]]
              /\ dots_color[DotIndexes("b")[1]] = "#2ECC71"
              /\ dots_color[DotIndexes("b")[2]] = "#2ECC71"

\* main and feature/x share the tip b, and another commit is detached
C7_Witness ==
    /\ pc = "prepared"
    /\ branch_data = << [name |-> n_main, commit |-> "b"],
                        [name |-> n_feature_x, commit |-> "b"] >>
    /\ "b" \in CommitShas
    /\ DetachedDots # {}

\* C8: a branch of the lane mapping with member commits gets exactly one
\* polyline, a branch without gets none; the polyline has one vertex per
\* member commit, on the branch's lane, the dates in non-decreasing order, in
\* the branch's colour
C8_PolylinePerBranch ==
    Laid =>
        /\ \A i \in 1..Len(branch_traces) : DictHas(branch_lanes, branch_traces[i].name)
        /\ \A e \in Range(branch_lanes) :
              LET members == {s \in CommitShas : e.k \in Members(s)}
                  traces  == {i \in 1..Len(branch_traces) : branch_traces[i].name = e.k}
              IN  IF members = {} THEN traces = {}
                  ELSE /\ Cardinality(traces) = 1
                       /\ \A i \in traces :
                             LET t == branch_traces[i]
                             IN  /\ Len(t.x) = Cardinality(members)
                                 /\ Len(t.y) = Len(t.x)
                                 /\ \A j \in 1..Len(t.y) : t.y[j] = e.v
                                 /\ \A j, k \in 1..Len(t.x) : j < k => t.x[j] <= t.x[k]
                                 /\ \A d \in Range(t.x) \cup {DictGet(commit_dates, s) : s \in members} :
                                       Cardinality({j \in 1..Len(t.x) : t.x[j] = d})
                                         = Cardinality({s \in members : DictGet(commit_dates, s) = d})
                                 /\ t.color = ColorOf(e.k)

\* a polyline whose tip is later than its parent (the walk met them in the
\* other order), and a branch that got no polyline
C8_Witness ==
    /\ pc = "prepared"
    /\ \E i \in 1..Len(branch_data) : \E s \in CommitShas :
          /\ branch_data[i].commit \in CommitShas
          /\ s # branch_data[i].commit
          /\ branch_data[i].name \in Members(s)
          /\ DictGet(commit_dates, s) < DictGet(commit_dates, branch_data[i].commit)
    /\ \E e \in Range(branch_lanes) :
          \A i \in 1..Len(branch_traces) : branch_traces[i].name # e.k

\* C9: the lanes stay injective with the sentinel: "(detached)" gets the next
\* free integer of the lane mapping when the first detached marker is emitted,
\* every detached marker is on that lane, no branch shares it, and the lane
\* mapping the figure labels its axis with has an entry for "(detached)"
\* exactly when a detached marker was emitted
C9_DetachedLaneInMapping ==
    /\ Laid =>
          /\ \A i \in DetachedDots : dots_y[i] = Len(branch_data)
          /\ \A i \in DetachedDots : \A e \in Range(branch_lanes) :
                e.k # Detached => e.v # dots_y[i]
          /\ DictHas(branch_lanes, Detached) <=> (DetachedDots # {})
    /\ pc = "done" =>
          ((Detached \in Range(fig.ticktext)) <=> (DetachedDots # {}))

====
